---- MODULE Spec2Model ----
(***************************************************************************)
(* State-machine model of web_extraction_agent/main.py: the lazily         *)
(* initialised module-level agent, the asyncio.Lock guarding its           *)
(* construction, and the handler / initialize_agent / run_agent entry      *)
(* points.  Every `await` of the source is a step boundary.                *)
(***************************************************************************)
EXTENDS Integers, Sequences, FiniteSets, TLC

\* ---------------------------------------------------------------- bounds
NumCallers == 2          \* concurrent invocations of an entry point
MaxEnvChanges == 1       \* writes to os.environ after start-up
MaxFaults == 1           \* external constructors that throw in one attempt

Procs == 1..NumCallers

\* ---------------------------------------------------------------- values
None == "None"
RequiredKeyValues == {None, "", "sk-key"}
OptionalKeyValues == {None, "sk-key"}
EnableValues == {None, "True", "False"}
DefaultModelName == "openai/gpt-4o"

\* the message list invocation p is called with: p messages, so that no
\* two invocations pass the same list
MessagesOf(p) == [i \in 1..p |-> [role |-> "user", content |-> i]]
Responses == {"R1", "R2"}

EnvNames == {"OPENROUTER_API_KEY", "MEM0_API_KEY", "EXA_API_KEY",
             "FIRECRAWL_API_KEY", "ENABLE_FIRECRAWL"}

EnvDomain(k) ==
  CASE k = "OPENROUTER_API_KEY" -> RequiredKeyValues
    [] k = "EXA_API_KEY" -> RequiredKeyValues
    [] k = "MEM0_API_KEY" -> OptionalKeyValues
    [] k = "FIRECRAWL_API_KEY" -> OptionalKeyValues
    [] k = "ENABLE_FIRECRAWL" -> EnableValues

Environments == { e \in [EnvNames -> RequiredKeyValues \cup OptionalKeyValues \cup EnableValues] :
                    \A k \in EnvNames : e[k] \in EnvDomain(k) }

\* the external constructors called during construction
Constructors == {"OpenRouter", "ExaTools", "FirecrawlTools", "Mem0Tools", "Agent"}

\* ---------------------------------------------------------------- errors
OpenRouterKeyError == "APIKeyError: OpenRouter API key is required"
ExaKeyError == "APIKeyError: Exa API key is required for web content extraction"
ExaToolsKeyError == "APIKeyError: Exa API key is required"
APIKeyError == {OpenRouterKeyError, ExaKeyError, ExaToolsKeyError}
AgentNotInitialized == "RuntimeError: Agent not initialized"
LockNotAcquired == "RuntimeError: Lock is not acquired."
AgentRunError == "AgentRunError"
ConstructorError(c) == c \o "Error"

\* outcome of a function: its value or the exception it raised, with the
\* external constructors that threw while it ran
Ok(v, t) == [ok |-> TRUE, val |-> v, thrown |-> t]
Raise(e, t) == [ok |-> FALSE, val |-> e, thrown |-> t]

\* `agent = None`: no Agent object
NoAgent == [id |-> 0, model |-> [id |-> None, api_key |-> None], tools |-> <<>>]

NoResult == [kind |-> "none", value |-> None]
Returned(v) == [kind |-> "ok", value |-> v]
Raised(e) == [kind |-> "err", value |-> e]

\* ---------------------------------------------------------------- state
VARIABLES
  env,            \* os.environ, the entries the module reads
  agent,          \* module global `agent`
  _initialized,   \* module global `_initialized`
  _locked,        \* _init_lock._locked
  _waiters,       \* _init_lock._waiters, in arrival order
  pc,             \* position of each invocation
  entry,          \* entry point each invocation came in through
  messages,       \* argument of each invocation
  result,         \* what each invocation returned or raised
  arunCalls,      \* calls each invocation made to agent.arun
  arunRet,        \* what agent.arun returned to each invocation
  initCalls,      \* number of times initialize_agent was entered
  constructions,  \* number of assignments to `agent`
  flagSets,       \* number of assignments `_initialized = True`
  envChanges,     \* number of os.environ writes so far
  alwaysValid,    \* both required keys were present at every moment so far
  llmEverPresent, \* OPENROUTER_API_KEY was present at some moment so far
  ctorFailed,     \* a mandatory external constructor has thrown so far
  lastThrown      \* constructors that threw in the latest construction attempt

vars == <<env, agent, _initialized, _locked, _waiters, pc, entry,
          messages, result, arunCalls, arunRet, initCalls, constructions,
          flagSets, envChanges, alwaysValid, llmEverPresent, ctorFailed,
          lastThrown>>

\* ---------------------------------------------------------------- pure functions
\* mutant: only an unset variable counts as missing
FalsyNoneOnly(x) == x = None

\* Python truthiness of `str | None`: `not x`
Falsy(x) == x \in {None, ""}

\* str.lower() on the values ENABLE_FIRECRAWL takes
Lower(s) ==
  CASE s = "True" -> "true"
    [] s = "False" -> "false"
    [] OTHER -> s

\* mutant: the environment is not consulted
getenv_stale(e, name, default) == default

\* os.getenv(name, default)
getenv(e, name, default) == IF e[name] = None THEN default ELSE e[name]

\* mutant: a placeholder key stands in for a missing OPENROUTER_API_KEY
_get_api_keys_defaulted(e) ==
  [openrouter_api_key |-> getenv(e, "OPENROUTER_API_KEY", "sk-key"),
   mem0_api_key |-> getenv(e, "MEM0_API_KEY", None),
   exa_api_key |-> getenv(e, "EXA_API_KEY", None),
   firecrawl_api_key |-> getenv(e, "FIRECRAWL_API_KEY", None),
   model_name |-> DefaultModelName]

_get_api_keys(e) ==
  [openrouter_api_key |-> getenv(e, "OPENROUTER_API_KEY", None),
   mem0_api_key |-> getenv(e, "MEM0_API_KEY", None),
   exa_api_key |-> getenv(e, "EXA_API_KEY", None),
   firecrawl_api_key |-> getenv(e, "FIRECRAWL_API_KEY", None),
   model_name |-> DefaultModelName]

_create_llm_model(openrouter_api_key, model_name, flt) ==
  IF Falsy(openrouter_api_key) THEN Raise(OpenRouterKeyError, {})
  ELSE IF "OpenRouter" \in flt
  THEN Raise(ConstructorError("OpenRouter"), {"OpenRouter"})
  ELSE Ok([id |-> model_name, api_key |-> openrouter_api_key], {})

\* mutant: ENABLE_FIRECRAWL is not consulted
enable_firecrawl_ignored(e) == TRUE

enable_firecrawl(e) ==
  Lower(getenv(e, "ENABLE_FIRECRAWL", "true")) \in {"true", "1", "yes"}

\* mutant: the exception of an optional constructor is not caught
TryAppendRaising(acc, wanted, tool, flt) ==
  IF ~acc.ok \/ ~wanted THEN acc
  ELSE IF tool \in flt
  THEN Raise(ConstructorError(tool), acc.thrown \cup {tool})
  ELSE [acc EXCEPT !.val = Append(@, tool)]

\* one optional tool: appended when its constructor returns, skipped (and
\* the exception swallowed) when it throws
TryAppend(acc, wanted, tool, flt) ==
  IF ~wanted THEN acc
  ELSE IF tool \in flt
  THEN [acc EXCEPT !.thrown = @ \cup {tool}]
  ELSE [acc EXCEPT !.val = Append(@, tool)]

\* mutant: the memory tool is set up outside any try block
_setup_tools_mem0_unguarded(mem0_api_key, exa_api_key, firecrawl_api_key, e, flt) ==
  IF Falsy(exa_api_key) THEN Raise(ExaToolsKeyError, {})
  ELSE IF "ExaTools" \in flt
  THEN Raise(ConstructorError("ExaTools"), {"ExaTools"})
  ELSE
    LET t1 == Ok(<<"ExaTools">>, {})
        t2 == TryAppend(t1, enable_firecrawl(e) /\ ~Falsy(firecrawl_api_key),
                        "FirecrawlTools", flt)
    IN IF ~Falsy(mem0_api_key) /\ "Mem0Tools" \in flt
       THEN Raise(ConstructorError("Mem0Tools"), t2.thrown \cup {"Mem0Tools"})
       ELSE TryAppend(t2, ~Falsy(mem0_api_key), "Mem0Tools", flt)

\* mutant: a failing search tool is skipped like the optional tools
_setup_tools_exa_soft(mem0_api_key, exa_api_key, firecrawl_api_key, e, flt) ==
  IF Falsy(exa_api_key) THEN Raise(ExaToolsKeyError, {})
  ELSE
    LET t1 == TryAppend(Ok(<<>>, {}), TRUE, "ExaTools", flt)
        t2 == TryAppend(t1, enable_firecrawl(e) /\ ~Falsy(firecrawl_api_key),
                        "FirecrawlTools", flt)
        t3 == TryAppend(t2, ~Falsy(mem0_api_key), "Mem0Tools", flt)
    IN t3

\* mutant: the memory tool is set up before the scraping tool
_setup_tools_mem0_first(mem0_api_key, exa_api_key, firecrawl_api_key, e, flt) ==
  IF Falsy(exa_api_key) THEN Raise(ExaToolsKeyError, {})
  ELSE IF "ExaTools" \in flt
  THEN Raise(ConstructorError("ExaTools"), {"ExaTools"})
  ELSE
    LET t1 == Ok(<<"ExaTools">>, {})
        t2 == TryAppend(t1, ~Falsy(mem0_api_key), "Mem0Tools", flt)
        t3 == TryAppend(t2, enable_firecrawl(e) /\ ~Falsy(firecrawl_api_key),
                        "FirecrawlTools", flt)
    IN t3

_setup_tools(mem0_api_key, exa_api_key, firecrawl_api_key, e, flt) ==
  IF Falsy(exa_api_key) THEN Raise(ExaToolsKeyError, {})
  ELSE IF "ExaTools" \in flt
  THEN Raise(ConstructorError("ExaTools"), {"ExaTools"})
  ELSE
    LET t1 == Ok(<<"ExaTools">>, {})
        t2 == TryAppend(t1, enable_firecrawl(e) /\ ~Falsy(firecrawl_api_key),
                        "FirecrawlTools", flt)
        t3 == TryAppend(t2, ~Falsy(mem0_api_key), "Mem0Tools", flt)
    IN t3

\* body of initialize_agent: the Agent it assigns, or the error it raises
initialize_agent(e, flt, id) ==
  LET k == _get_api_keys(e) IN
  IF Falsy(k.openrouter_api_key) THEN Raise(OpenRouterKeyError, {})
  ELSE IF Falsy(k.exa_api_key) THEN Raise(ExaKeyError, {})
  ELSE
    LET model == _create_llm_model(k.openrouter_api_key, k.model_name, flt) IN
    IF ~model.ok THEN model
    ELSE
      LET tools == _setup_tools(k.mem0_api_key, k.exa_api_key,
                                k.firecrawl_api_key, e, flt) IN
      IF ~tools.ok THEN tools
      ELSE IF "Agent" \in flt
      THEN Raise(ConstructorError("Agent"), tools.thrown \cup {"Agent"})
      ELSE Ok([id |-> id, model |-> model.val, tools |-> tools.val],
              tools.thrown)

\* the constructors whose failure aborts construction
Mandatory == {"OpenRouter", "ExaTools", "Agent"}

FaultSets == { f \in SUBSET Constructors : Cardinality(f) <= MaxFaults }

\* a credential is present: the variable is set and not empty
Present(x) == x # None /\ x # ""

RequiredPresent(e) ==
  Present(e["OPENROUTER_API_KEY"]) /\ Present(e["EXA_API_KEY"])

\* ---------------------------------------------------------------- initial state
Init ==
  /\ env \in Environments
  /\ agent = NoAgent
  /\ _initialized = FALSE
  /\ _locked = FALSE
  /\ _waiters = <<>>
  /\ pc = [p \in Procs |-> "idle"]
  /\ entry = [p \in Procs |-> "none"]
  /\ messages = [p \in Procs |-> <<>>]
  /\ result = [p \in Procs |-> NoResult]
  /\ arunCalls = [p \in Procs |-> <<>>]
  /\ arunRet = [p \in Procs |-> None]
  /\ initCalls = 0
  /\ constructions = 0
  /\ flagSets = 0
  /\ envChanges = 0
  /\ alwaysValid = RequiredPresent(env)
  /\ llmEverPresent = Present(env["OPENROUTER_API_KEY"])
  /\ ctorFailed = FALSE
  /\ lastThrown = {}

\* ---------------------------------------------------------------- asyncio.Lock
\* mutant: the lock excludes nobody
CanAcquireAlways == TRUE

\* mutant: the fast path does not look at the holder
CanAcquireIgnoringHolder == _waiters = <<>>

\* Lock.acquire() fast path: free, and every pending waiter's future is
\* cancelled
CanAcquireNow ==
  ~_locked /\ \A i \in 1..Len(_waiters) : pc[_waiters[i]] = "cancelled"

\* mutant: release() wakes nobody
_wake_up_first_lost(f) == f

\* Lock._wake_up_first(): complete the future of the first waiter
_wake_up_first(f) ==
  IF _waiters # <<>> /\ f[Head(_waiters)] = "waiting"
  THEN [f EXCEPT ![Head(_waiters)] = "woken"]
  ELSE f

Remove(s, x) == SelectSeq(s, LAMBDA y : y # x)

\* ---------------------------------------------------------------- handler
\* mutant: the flag is tested before the lock, which is skipped when it is set
HandlerFlagFirst(p) ==
  /\ pc[p] = "idle"
  /\ entry' = [entry EXCEPT ![p] = "handler"]
  /\ messages' = [messages EXCEPT ![p] = MessagesOf(p)]
  /\ IF _initialized
     THEN /\ pc' = [pc EXCEPT ![p] = "run"]
          /\ UNCHANGED <<_locked, _waiters>>
     ELSE IF CanAcquireNow
     THEN /\ _locked' = TRUE
          /\ pc' = [pc EXCEPT ![p] = "locked"]
          /\ UNCHANGED _waiters
     ELSE /\ _waiters' = Append(_waiters, p)
          /\ pc' = [pc EXCEPT ![p] = "waiting"]
          /\ UNCHANGED _locked
  /\ UNCHANGED <<env, agent, _initialized, result, arunCalls, arunRet,
                 initCalls, constructions, flagSets, envChanges, alwaysValid,
                 llmEverPresent, ctorFailed, lastThrown>>

\* handler(messages) is called: `async with _init_lock` takes the lock at
\* once when it is free, and queues the caller otherwise
Handler(p) ==
  /\ pc[p] = "idle"
  /\ entry' = [entry EXCEPT ![p] = "handler"]
  /\ messages' = [messages EXCEPT ![p] = MessagesOf(p)]
  /\ IF CanAcquireNow
     THEN /\ _locked' = TRUE
          /\ pc' = [pc EXCEPT ![p] = "locked"]
          /\ UNCHANGED _waiters
     ELSE /\ _waiters' = Append(_waiters, p)
          /\ pc' = [pc EXCEPT ![p] = "waiting"]
          /\ UNCHANGED _locked
  /\ UNCHANGED <<env, agent, _initialized, result, arunCalls, arunRet,
                 initCalls, constructions, flagSets, envChanges, alwaysValid,
                 llmEverPresent, ctorFailed, lastThrown>>

\* a queued caller whose future was completed resumes inside acquire()
WakeUp(p) ==
  /\ pc[p] = "woken"
  /\ _waiters' = Remove(_waiters, p)
  /\ _locked' = TRUE
  /\ pc' = [pc EXCEPT ![p] = "locked"]
  /\ UNCHANGED <<env, agent, _initialized, entry, messages, result,
                 arunCalls, arunRet, initCalls, constructions, flagSets,
                 envChanges, alwaysValid, llmEverPresent, ctorFailed,
                 lastThrown>>

\* mutant: the flag is not re-checked under the lock
GuardNoRecheck(p) ==
  /\ pc[p] = "locked"
  /\ pc' = [pc EXCEPT ![p] = "init"]
  /\ initCalls' = initCalls + 1
  /\ UNCHANGED <<env, agent, _initialized, _locked, _waiters, entry,
                 messages, result, arunCalls, arunRet, constructions, flagSets,
                 envChanges, alwaysValid, llmEverPresent, ctorFailed,
                 lastThrown>>

\* mutant: the flag is raised before construction is attempted
GuardFlagFirst(p) ==
  /\ pc[p] = "locked"
  /\ IF _initialized
     THEN /\ pc' = [pc EXCEPT ![p] = "exit"]
          /\ UNCHANGED <<initCalls, _initialized, flagSets>>
     ELSE /\ pc' = [pc EXCEPT ![p] = "init"]
          /\ initCalls' = initCalls + 1
          /\ _initialized' = TRUE
          /\ flagSets' = flagSets + 1
  /\ UNCHANGED <<env, agent, _locked, _waiters, entry, messages, result,
                 arunCalls, arunRet, constructions, envChanges, alwaysValid,
                 llmEverPresent, ctorFailed, lastThrown>>

\* `if not _initialized:` under the lock; calls initialize_agent() when unset
Guard(p) ==
  /\ pc[p] = "locked"
  /\ IF _initialized
     THEN /\ pc' = [pc EXCEPT ![p] = "exit"]
          /\ UNCHANGED initCalls
     ELSE /\ pc' = [pc EXCEPT ![p] = "init"]
          /\ initCalls' = initCalls + 1
  /\ UNCHANGED <<env, agent, _initialized, _locked, _waiters, entry,
                 messages, result, arunCalls, arunRet, constructions,
                 flagSets, envChanges, alwaysValid, llmEverPresent,
                 ctorFailed, lastThrown>>

\* mutant: the exception is caught and replaced by a generic one
PropagateWrapped(e) == Raised("RuntimeError: initialization failed")

\* what the handler does with the exception initialize_agent raised
Propagate(e) == Raised(e)

\* `await initialize_agent()`: assigns `agent`, or raises out of the handler
InitializeAgent(p, flt) ==
  /\ pc[p] = "init"
  /\ LET out == initialize_agent(env, flt, constructions + 1) IN
     /\ IF out.ok
        THEN /\ agent' = out.val
             /\ constructions' = constructions + 1
             /\ pc' = [pc EXCEPT ![p] = "inited"]
             /\ UNCHANGED result
        ELSE /\ result' = [result EXCEPT ![p] = Propagate(out.val)]
             /\ pc' = [pc EXCEPT ![p] = "exit"]
             /\ UNCHANGED <<agent, constructions>>
     /\ lastThrown' = out.thrown
     /\ ctorFailed' = (ctorFailed \/ out.thrown \cap Mandatory # {})
  /\ UNCHANGED <<env, _initialized, _locked, _waiters, entry, messages,
                 arunCalls, arunRet, initCalls, flagSets, envChanges,
                 alwaysValid, llmEverPresent>>

\* mutant: the flag is never raised
SetInitializedForgets(p) ==
  /\ pc[p] = "inited"
  /\ pc' = [pc EXCEPT ![p] = "exit"]
  /\ UNCHANGED <<env, agent, _initialized, _locked, _waiters, entry, messages,
                 result, arunCalls, arunRet, initCalls, constructions,
                 flagSets, envChanges, alwaysValid, llmEverPresent, ctorFailed,
                 lastThrown>>

\* `_initialized = True`
SetInitialized(p) ==
  /\ pc[p] = "inited"
  /\ _initialized' = TRUE
  /\ flagSets' = flagSets + 1
  /\ pc' = [pc EXCEPT ![p] = "exit"]
  /\ UNCHANGED <<env, agent, _locked, _waiters, entry, messages, result,
                 arunCalls, arunRet, initCalls, constructions, envChanges,
                 alwaysValid, llmEverPresent, ctorFailed, lastThrown>>

\* mutant: the lock is kept while the agent runs
ExitLockKeeps(p) ==
  /\ pc[p] = "exit"
  /\ pc' = [pc EXCEPT ![p] = IF result[p].kind = "err" THEN "done" ELSE "run"]
  /\ UNCHANGED <<env, agent, _initialized, _locked, _waiters, entry, messages,
                 result, arunCalls, arunRet, initCalls, constructions,
                 flagSets, envChanges, alwaysValid, llmEverPresent, ctorFailed,
                 lastThrown>>

\* mutant: the flag is raised on the way out, whatever happened inside
ExitLockFlagAlways(p) ==
  /\ pc[p] = "exit"
  /\ _initialized' = TRUE
  /\ IF _locked
     THEN /\ _locked' = FALSE
          /\ pc' = _wake_up_first([pc EXCEPT ![p] =
                      IF result[p].kind = "err" THEN "done" ELSE "run"])
          /\ UNCHANGED result
     ELSE /\ result' = [result EXCEPT ![p] = Raised(LockNotAcquired)]
          /\ pc' = [pc EXCEPT ![p] = "done"]
          /\ UNCHANGED _locked
  /\ UNCHANGED <<env, agent, _waiters, entry, messages,
                 arunCalls, arunRet, initCalls, constructions, flagSets,
                 envChanges, alwaysValid, llmEverPresent, ctorFailed,
                 lastThrown>>

\* leaving `async with _init_lock`: Lock.release(), on the normal path and
\* on the exception path alike
ExitLock(p) ==
  /\ pc[p] = "exit"
  /\ IF _locked
     THEN /\ _locked' = FALSE
          /\ pc' = _wake_up_first([pc EXCEPT ![p] =
                      IF result[p].kind = "err" THEN "done" ELSE "run"])
          /\ UNCHANGED result
     ELSE /\ result' = [result EXCEPT ![p] = Raised(LockNotAcquired)]
          /\ pc' = [pc EXCEPT ![p] = "done"]
          /\ UNCHANGED _locked
  /\ UNCHANGED <<env, agent, _initialized, _waiters, entry, messages,
                 arunCalls, arunRet, initCalls, constructions, flagSets,
                 envChanges, alwaysValid, llmEverPresent, ctorFailed,
                 lastThrown>>

\* mutant: run_agent calls agent.arun without testing `agent`
RunAgentNoCheck(p) ==
  /\ pc[p] = "run"
  /\ arunCalls' = [arunCalls EXCEPT ![p] =
         Append(@, [agent |-> agent.id, messages |-> messages[p]])]
  /\ pc' = [pc EXCEPT ![p] = "arun"]
  /\ UNCHANGED <<env, agent, _initialized, _locked, _waiters, entry,
                 messages, result, arunRet, initCalls, constructions, flagSets,
                 envChanges, alwaysValid, llmEverPresent, ctorFailed,
                 lastThrown>>

\* run_agent(messages): `if not agent: raise`, else call agent.arun(messages)
RunAgent(p) ==
  /\ pc[p] = "run"
  /\ IF agent = NoAgent
     THEN /\ result' = [result EXCEPT ![p] = Raised(AgentNotInitialized)]
          /\ pc' = [pc EXCEPT ![p] = "done"]
          /\ UNCHANGED arunCalls
     ELSE /\ arunCalls' = [arunCalls EXCEPT ![p] =
                 Append(@, [agent |-> agent.id, messages |-> messages[p]])]
          /\ pc' = [pc EXCEPT ![p] = "arun"]
          /\ UNCHANGED result
  /\ UNCHANGED <<env, agent, _initialized, _locked, _waiters, entry,
                 messages, arunRet, initCalls, constructions, flagSets,
                 envChanges, alwaysValid, llmEverPresent, ctorFailed,
                 lastThrown>>

\* mutant: the response is converted to text before it is returned
PassThroughStr(r) == Returned("str(" \o r \o ")")

\* what run_agent / handler return for the value agent.arun produced
PassThrough(r) == Returned(r)

\* agent.arun returns r: `return await agent.arun(messages)`
ArunReturn(p, r) ==
  /\ pc[p] = "arun"
  /\ arunRet' = [arunRet EXCEPT ![p] = r]
  /\ result' = [result EXCEPT ![p] = PassThrough(r)]
  /\ pc' = [pc EXCEPT ![p] = "done"]
  /\ UNCHANGED <<env, agent, _initialized, _locked, _waiters, entry,
                 messages, arunCalls, initCalls, constructions, flagSets,
                 envChanges, alwaysValid, llmEverPresent, ctorFailed,
                 lastThrown>>

\* agent.arun raises: the exception leaves run_agent and handler
ArunRaise(p) ==
  /\ pc[p] = "arun"
  /\ result' = [result EXCEPT ![p] = Raised(AgentRunError)]
  /\ pc' = [pc EXCEPT ![p] = "done"]
  /\ UNCHANGED <<env, agent, _initialized, _locked, _waiters, entry,
                 messages, arunCalls, arunRet, initCalls, constructions,
                 flagSets, envChanges, alwaysValid, llmEverPresent,
                 ctorFailed, lastThrown>>

\* ---------------------------------------------------------------- cancellation
CancelledError == "CancelledError"

\* Lock._wake_up_first() on the waiter queue w
_wake_up_first_in(w, f) ==
  IF w # <<>> /\ f[Head(w)] = "waiting"
  THEN [f EXCEPT ![Head(w)] = "woken"]
  ELSE f

\* the host cancels the task of a caller suspended in Lock.acquire(): a
\* pending future is cancelled; when the future already has its result the
\* task is marked and gets the CancelledError at its next step
Cancel(p) ==
  /\ pc[p] \in {"waiting", "woken"}
  /\ pc' = [pc EXCEPT ![p] = IF pc[p] = "waiting" THEN "cancelled"
                                                  ELSE "interrupted"]
  /\ UNCHANGED <<env, agent, _initialized, _locked, _waiters, entry, messages,
                 result, arunCalls, arunRet, initCalls, constructions,
                 flagSets, envChanges, alwaysValid, llmEverPresent, ctorFailed,
                 lastThrown>>

\* mutant: the cancelled caller leaves acquire() with the lock taken
AcquireCancelledLocks(p) ==
  /\ pc[p] \in {"cancelled", "interrupted"}
  /\ _waiters' = Remove(_waiters, p)
  /\ _locked' = TRUE
  /\ pc' = [pc EXCEPT ![p] = "done"]
  /\ result' = [result EXCEPT ![p] = Raised(CancelledError)]
  /\ UNCHANGED <<env, agent, _initialized, entry, messages, arunCalls,
                 arunRet, initCalls, constructions, flagSets, envChanges,
                 alwaysValid, llmEverPresent, ctorFailed, lastThrown>>

\* the cancelled caller resumes inside acquire(): `finally` removes its
\* future, `except CancelledError` wakes the next waiter when the lock is
\* free, and the exception leaves handler without entering the with-block
AcquireCancelled(p) ==
  /\ pc[p] \in {"cancelled", "interrupted"}
  /\ _waiters' = Remove(_waiters, p)
  /\ LET f == [pc EXCEPT ![p] = "done"] IN
       pc' = IF ~_locked THEN _wake_up_first_in(_waiters', f) ELSE f
  /\ result' = [result EXCEPT ![p] = Raised(CancelledError)]
  /\ UNCHANGED <<env, agent, _initialized, _locked, entry, messages,
                 arunCalls, arunRet, initCalls, constructions, flagSets,
                 envChanges, alwaysValid, llmEverPresent, ctorFailed,
                 lastThrown>>

\* ---------------------------------------------------------------- environment
\* os.environ[k] = v (or its removal) by the host, at any moment
SetEnv(k, v) ==
  /\ envChanges < MaxEnvChanges
  /\ v # env[k]
  /\ env' = [env EXCEPT ![k] = v]
  /\ envChanges' = envChanges + 1
  /\ alwaysValid' = (alwaysValid /\ RequiredPresent(env'))
  /\ llmEverPresent' = (llmEverPresent \/ Present(env'["OPENROUTER_API_KEY"]))
  /\ UNCHANGED <<agent, _initialized, _locked, _waiters, pc, entry, messages,
                 result, arunCalls, arunRet, initCalls, constructions,
                 flagSets, ctorFailed, lastThrown>>

\* ---------------------------------------------------------------- direct calls
\* run_agent(messages) called directly, not through handler
RunAgentDirect(p) ==
  /\ pc[p] = "idle"
  /\ entry' = [entry EXCEPT ![p] = "run_agent"]
  /\ messages' = [messages EXCEPT ![p] = MessagesOf(p)]
  /\ pc' = [pc EXCEPT ![p] = "run"]
  /\ UNCHANGED <<env, agent, _initialized, _locked, _waiters, result,
                 arunCalls, arunRet, initCalls, constructions, flagSets,
                 envChanges, alwaysValid, llmEverPresent, ctorFailed,
                 lastThrown>>

\* mutant: initialize_agent marks the module initialized itself
InitializeAgentDirectSetsFlag(p, flt) ==
  /\ pc[p] = "idle"
  /\ entry' = [entry EXCEPT ![p] = "initialize_agent"]
  /\ initCalls' = initCalls + 1
  /\ LET out == initialize_agent(env, flt, constructions + 1) IN
     /\ IF out.ok
        THEN /\ agent' = out.val
             /\ constructions' = constructions + 1
             /\ _initialized' = TRUE
             /\ result' = [result EXCEPT ![p] = Returned(None)]
        ELSE /\ result' = [result EXCEPT ![p] = Raised(out.val)]
             /\ UNCHANGED <<agent, constructions, _initialized>>
     /\ lastThrown' = out.thrown
     /\ ctorFailed' = (ctorFailed \/ out.thrown \cap Mandatory # {})
  /\ pc' = [pc EXCEPT ![p] = "done"]
  /\ UNCHANGED <<env, _locked, _waiters, messages, arunCalls, arunRet,
                 flagSets, envChanges, alwaysValid, llmEverPresent>>

\* initialize_agent() called directly, not through handler: it has no
\* suspension point, touches neither `_initialized` nor `_init_lock`, and
\* assigns `agent` or raises
InitializeAgentDirect(p, flt) ==
  /\ pc[p] = "idle"
  /\ entry' = [entry EXCEPT ![p] = "initialize_agent"]
  /\ initCalls' = initCalls + 1
  /\ LET out == initialize_agent(env, flt, constructions + 1) IN
     /\ IF out.ok
        THEN /\ agent' = out.val
             /\ constructions' = constructions + 1
             /\ result' = [result EXCEPT ![p] = Returned(None)]
        ELSE /\ result' = [result EXCEPT ![p] = Raised(out.val)]
             /\ UNCHANGED <<agent, constructions>>
     /\ lastThrown' = out.thrown
     /\ ctorFailed' = (ctorFailed \/ out.thrown \cap Mandatory # {})
  /\ pc' = [pc EXCEPT ![p] = "done"]
  /\ UNCHANGED <<env, _initialized, _locked, _waiters, messages, arunCalls,
                 arunRet, flagSets, envChanges, alwaysValid, llmEverPresent>>

\* ---------------------------------------------------------------- worker threads
\* handler(messages) entered on a worker thread: Lock.acquire() is plain
\* Python, so its test and its assignment are separate steps
HandlerThread(p) ==
  /\ pc[p] = "idle"
  /\ entry' = [entry EXCEPT ![p] = "handler"]
  /\ messages' = [messages EXCEPT ![p] = MessagesOf(p)]
  /\ pc' = [pc EXCEPT ![p] = "acquire"]
  /\ UNCHANGED <<env, agent, _initialized, _locked, _waiters, result,
                 arunCalls, arunRet, initCalls, constructions, flagSets,
                 envChanges, alwaysValid, llmEverPresent, ctorFailed,
                 lastThrown>>

\* `if not self._locked and ...:` evaluated
TestLock(p) ==
  /\ pc[p] = "acquire"
  /\ IF CanAcquireNow
     THEN /\ pc' = [pc EXCEPT ![p] = "fast"]
          /\ UNCHANGED _waiters
     ELSE /\ _waiters' = Append(_waiters, p)
          /\ pc' = [pc EXCEPT ![p] = "waiting"]
  /\ UNCHANGED <<env, agent, _initialized, _locked, entry, messages, result,
                 arunCalls, arunRet, initCalls, constructions, flagSets,
                 envChanges, alwaysValid, llmEverPresent, ctorFailed,
                 lastThrown>>

\* `self._locked = True` after the test passed
SetLock(p) ==
  /\ pc[p] = "fast"
  /\ _locked' = TRUE
  /\ pc' = [pc EXCEPT ![p] = "locked"]
  /\ UNCHANGED <<env, agent, _initialized, _waiters, entry, messages, result,
                 arunCalls, arunRet, initCalls, constructions, flagSets,
                 envChanges, alwaysValid, llmEverPresent, ctorFailed,
                 lastThrown>>

\* ---------------------------------------------------------------- specifications
Steps ==
  \/ \E p \in Procs : WakeUp(p)
  \/ \E p \in Procs : Guard(p)
  \/ \E p \in Procs : \E flt \in FaultSets : InitializeAgent(p, flt)
  \/ \E p \in Procs : SetInitialized(p)
  \/ \E p \in Procs : ExitLock(p)
  \/ \E p \in Procs : RunAgent(p)
  \/ \E p \in Procs : \E r \in Responses : ArunReturn(p, r)
  \/ \E p \in Procs : ArunRaise(p)

\* handler invocations interleaved on one event loop, in an environment
\* the host may change
Next ==
  \/ \E p \in Procs : Handler(p)
  \/ Steps
  \/ \E k \in EnvNames : \E v \in EnvDomain(k) : SetEnv(k, v)

Spec == Init /\ [][Next]_vars

\* handler invocations interleaved on one event loop, in a fixed environment
NextFixed ==
  \/ \E p \in Procs : Handler(p)
  \/ Steps

SpecFixed == Init /\ [][NextFixed]_vars

\* the steps of invocation p after its call: what the event loop runs when it
\* schedules p's task
ProcStep(p) ==
  \/ WakeUp(p)
  \/ Guard(p)
  \/ \E flt \in FaultSets : InitializeAgent(p, flt)
  \/ SetInitialized(p)
  \/ ExitLock(p)
  \/ RunAgent(p)
  \/ \E r \in Responses : ArunReturn(p, r)
  \/ ArunRaise(p)

\* the event loop runs every ready task, and initialize_agent and agent.arun
\* terminate
FairSpec == SpecFixed /\ \A p \in Procs : WF_vars(ProcStep(p))

\* handler invocations on one event loop whose tasks the host may cancel
\* while they wait for the lock, in a fixed environment
NextCancel ==
  \/ \E p \in Procs : Handler(p)
  \/ Steps
  \/ \E p \in Procs : Cancel(p)
  \/ \E p \in Procs : AcquireCancelled(p)

SpecCancel == Init /\ [][NextCancel]_vars

\* the event loop runs every ready task, a cancelled one included
FairCancel ==
  SpecCancel /\ \A p \in Procs : WF_vars(ProcStep(p) \/ AcquireCancelled(p))

\* handler and run_agent both called from outside, in a fixed environment
NextDirect ==
  \/ \E p \in Procs : Handler(p)
  \/ Steps
  \/ \E p \in Procs : RunAgentDirect(p)

SpecDirect == Init /\ [][NextDirect]_vars

\* handler, run_agent and initialize_agent all called from outside, in a
\* fixed environment
NextExported ==
  \/ \E p \in Procs : Handler(p)
  \/ Steps
  \/ \E p \in Procs : RunAgentDirect(p)
  \/ \E p \in Procs : \E flt \in FaultSets : InitializeAgentDirect(p, flt)

SpecExported == Init /\ [][NextExported]_vars

\* handler invocations on preemptive worker threads, in a fixed environment
NextThreads ==
  \/ \E p \in Procs : HandlerThread(p)
  \/ \E p \in Procs : TestLock(p)
  \/ \E p \in Procs : SetLock(p)
  \/ Steps

SpecThreads == Init /\ [][NextThreads]_vars

TypeOK ==
  /\ env \in Environments
  /\ lastThrown \subseteq Constructors
  /\ ctorFailed \in BOOLEAN
  /\ _initialized \in BOOLEAN
  /\ _locked \in BOOLEAN
  /\ pc \in [Procs -> {"idle", "acquire", "fast", "waiting", "woken", "locked",
                       "init", "inited", "exit", "run", "arun", "done",
                       "cancelled", "interrupted"}]
  /\ entry \in [Procs -> {"none", "handler", "run_agent", "initialize_agent"}]
  /\ initCalls \in 0..NumCallers
  /\ constructions \in 0..NumCallers
  /\ flagSets \in 0..NumCallers

\* ---------------------------------------------------------------- properties
FullyConstructed(a) ==
  /\ a.id >= 1
  /\ Present(a.model.api_key)
  /\ a.model.id = DefaultModelName
  /\ Len(a.tools) >= 1
  /\ a.tools[1] = "ExaTools"

Dispatched(p) == Len(arunCalls[p]) = 1

\* C1: with both required keys present throughout and no mandatory
\* constructor throwing, initialize_agent is entered at most once however
\* many handler invocations race, exactly once as soon as one invocation is
\* past the lock, and every invocation past the lock goes on to call
\* agent.arun.
C1_ExactlyOneConstruction ==
  (alwaysValid /\ ~ctorFailed) =>
    /\ initCalls <= 1
    /\ \A p \in Procs :
         pc[p] \in {"run", "arun", "done"} =>
           /\ initCalls = 1
           /\ constructions = 1
           /\ (pc[p] \in {"arun", "done"} => Dispatched(p))

C1_Witness ==
  /\ alwaysValid /\ ~ctorFailed
  /\ initCalls = 1
  /\ \A p \in Procs : pc[p] = "done" /\ Dispatched(p)

\* C2: when initialize_agent raises inside a handler invocation, the
\* handler raises that same exception; the flag stays false, no agent is
\* visible, the lock is released on the way out, and the next invocation
\* that passes the guard attempts construction again.
C2_FailurePropagates ==
  [][\A p \in Procs :
       /\ (pc[p] = "init" /\ pc'[p] = "exit") =>
            /\ \E flt \in FaultSets :
                 LET out == initialize_agent(env, flt, constructions + 1) IN
                 ~out.ok /\ result'[p] = Raised(out.val)
            /\ ~_initialized' /\ agent' = NoAgent
       /\ (pc[p] = "exit" /\ result[p].kind = "err" /\ pc'[p] # "exit") =>
            /\ pc'[p] = "done" /\ result'[p] = result[p]
            /\ ~_locked' /\ ~_initialized' /\ agent' = NoAgent
       /\ (pc[p] = "locked" /\ ~_initialized /\ pc'[p] # "locked") =>
            pc'[p] = "init" /\ initCalls' = initCalls + 1
    ]_vars

C2_Witness ==
  \E p, q \in Procs :
    /\ pc[p] = "done" /\ result[p].kind = "err"
    /\ result[p].value \in APIKeyError
    /\ pc[q] = "init" /\ initCalls = 2
    /\ ~_initialized /\ agent = NoAgent

\* C3: whenever the flag is set the agent is present and fully constructed,
\* and no invocation that came in through handler raises
\* "Agent not initialized".
C3_ReadyImpliesAgent ==
  /\ _initialized => (agent # NoAgent /\ FullyConstructed(agent))
  /\ \A p \in Procs :
       entry[p] = "handler" => result[p] # Raised(AgentNotInitialized)

C3_Witness ==
  /\ _initialized
  /\ \E p \in Procs : pc[p] = "done" /\ result[p].kind = "ok"

\* C4: as long as OPENROUTER_API_KEY has never been present, the flag is
\* unset, no agent exists, agent.arun has not been called, and every
\* finished handler invocation raised APIKeyError.
C4_NoLLMKeyNeverReady ==
  ~llmEverPresent =>
    /\ ~_initialized /\ agent = NoAgent /\ constructions = 0
    /\ \A p \in Procs :
         /\ arunCalls[p] = <<>>
         /\ pc[p] \notin {"inited", "run", "arun"}
         /\ pc[p] = "done" =>
              result[p].kind = "err" /\ result[p].value \in APIKeyError

C4_Witness ==
  /\ ~llmEverPresent
  /\ envChanges = MaxEnvChanges
  /\ \A p \in Procs : pc[p] = "done" /\ result[p] = Raised(OpenRouterKeyError)

\* C5: a construction attempt made while EXA_API_KEY is missing raises
\* APIKeyError whatever OPENROUTER_API_KEY is; it invokes no constructor,
\* assigns no agent and leaves the flag false.
C5_NoSearchKeyFails ==
  [][\A p \in Procs :
       (pc[p] = "init" /\ pc'[p] # "init" /\ ~Present(env["EXA_API_KEY"])) =>
         /\ pc'[p] = "exit"
         /\ result'[p].kind = "err" /\ result'[p].value \in APIKeyError
         /\ agent' = agent /\ constructions' = constructions
         /\ lastThrown' = {}
         /\ ~_initialized'
    ]_vars

C5_Witness ==
  \E p \in Procs :
    /\ pc[p] = "done" /\ result[p] = Raised(ExaKeyError)
    /\ Present(env["OPENROUTER_API_KEY"]) /\ ~Present(env["EXA_API_KEY"])
    /\ envChanges = 0

\* C6: the flag is never cleared, and it goes from false to true at most
\* once, namely right after the first successful construction.
C6_FlagSetOnce ==
  [][/\ _initialized => _initialized'
     /\ flagSets' <= 1
     /\ (~_initialized /\ _initialized') =>
          (flagSets' = 1 /\ constructions' = 1 /\ agent' # NoAgent)
    ]_vars

C6_Witness ==
  /\ _initialized /\ flagSets = 1
  /\ envChanges = MaxEnvChanges
  /\ \A p \in Procs : pc[p] = "done"

\* C7: a handler invocation calls agent.arun at most once, with the
\* message list it was given and on the current agent, and when agent.arun
\* returns a value the handler returns exactly that value.
C7_PassThrough ==
  \A p \in Procs :
    entry[p] = "handler" =>
      /\ Len(arunCalls[p]) <= 1
      /\ pc[p] \in {"arun", "done"} /\ result[p].kind # "err" => Dispatched(p)
      /\ Dispatched(p) =>
           /\ arunCalls[p][1].messages = messages[p]
           /\ arunCalls[p][1].agent = agent.id
      /\ (pc[p] = "done" /\ arunRet[p] # None) =>
           result[p] = Returned(arunRet[p])
      /\ (pc[p] = "done" /\ result[p].kind = "ok") =>
           (Dispatched(p) /\ arunRet[p] = result[p].value)

C7_Witness ==
  \E p, q \in Procs :
    /\ pc[p] = "done" /\ pc[q] = "done"
    /\ result[p] = Returned("R1") /\ result[q] = Returned("R2")
    /\ arunCalls[p][1].messages = MessagesOf(p)
    /\ arunCalls[q][1].messages = MessagesOf(q)

\* C8: run_agent entered while no agent exists raises
\* "Agent not initialized", calls agent.arun not at all, and changes
\* neither the flag nor the agent.
C8_RunAgentWithoutAgent ==
  [][\A p \in Procs :
       (pc[p] = "run" /\ agent = NoAgent /\ pc'[p] # "run") =>
         /\ pc'[p] = "done"
         /\ result'[p] = Raised(AgentNotInitialized)
         /\ arunCalls' = arunCalls
         /\ agent' = agent /\ _initialized' = _initialized
    ]_vars

C8_Witness ==
  \E p \in Procs :
    /\ entry[p] = "run_agent" /\ pc[p] = "done"
    /\ result[p] = Raised(AgentNotInitialized)
    /\ arunCalls[p] = <<>>
    /\ constructions = 0

\* C9: also on preemptive worker threads, at most one Agent is ever
\* constructed and a set flag implies a present agent.
C9_ThreadSafe ==
  /\ constructions <= 1
  /\ _initialized => agent # NoAgent

\* C10: every construction attempt decides on the environment as it is at
\* that moment (required keys present: it constructs the agent unless a
\* mandatory constructor throws; a required key missing: APIKeyError), a
\* successful attempt is followed by the flag being set, and once the flag
\* is set no environment change causes another attempt.
C10_ConfigReadPerAttempt ==
  [][/\ \A p \in Procs :
          (pc[p] = "init" /\ pc'[p] # "init") =>
            IF RequiredPresent(env)
            THEN \/ pc'[p] = "inited" /\ agent' # NoAgent
                                      /\ agent'.model.api_key = env["OPENROUTER_API_KEY"]
                 \/ lastThrown' \cap Mandatory # {}
            ELSE pc'[p] = "exit" /\ result'[p].value \in APIKeyError
     /\ \A p \in Procs :
          (pc[p] = "inited" /\ pc'[p] # "inited") => _initialized'
     /\ _initialized =>
          (initCalls' = initCalls /\ constructions' = constructions
           /\ agent' = agent)
    ]_vars

C10_Witness ==
  \E p, q \in Procs :
    /\ pc[p] = "done" /\ result[p].kind = "err"
    /\ result[p].value \in APIKeyError
    /\ envChanges >= 1
    /\ pc[q] = "done" /\ result[q].kind = "ok"
    /\ _initialized /\ ~ctorFailed

\* position of a tool in the order Search, Scrape, Memory
Rank(tool) ==
  CASE tool = "ExaTools" -> 1
    [] tool = "FirecrawlTools" -> 2
    [] tool = "Mem0Tools" -> 3
    [] OTHER -> 0

\* C11: the tool list of every constructed agent starts with the search
\* tool and is strictly ascending in the order Search, Scrape, Memory, so
\* no other order and no duplicate occurs.
C11_ToolOrder ==
  agent # NoAgent =>
    /\ Len(agent.tools) >= 1
    /\ agent.tools[1] = "ExaTools"
    /\ \A i, j \in 1..Len(agent.tools) :
         i < j => Rank(agent.tools[i]) < Rank(agent.tools[j])

C11_Witness ==
  /\ _initialized
  /\ agent.tools = <<"ExaTools", "FirecrawlTools", "Mem0Tools">>

InList(tool, tools) == \E i \in 1..Len(tools) : tools[i] = tool

\* a construction attempt of invocation p ends in this step
Attempt(p) == pc[p] = "init" /\ pc'[p] # "init"

\* of the values ENABLE_FIRECRAWL takes, only "False" disables scraping
ScrapeWanted ==
  /\ env["ENABLE_FIRECRAWL"] \in {None, "True"}
  /\ Present(env["FIRECRAWL_API_KEY"])

\* C12: a construction puts the scraping tool in the list only if
\* ENABLE_FIRECRAWL is unset or true and FIRECRAWL_API_KEY is present (and
\* then always, unless its constructor throws); with the key present and the
\* flag false the construction succeeds without the scraping tool.
C12_ScrapeOnlyIfEnabled ==
  [][\A p \in Procs :
       /\ (Attempt(p) /\ pc'[p] = "inited") =>
            (InList("FirecrawlTools", agent'.tools) <=>
               (ScrapeWanted /\ "FirecrawlTools" \notin lastThrown'))
       /\ (Attempt(p) /\ RequiredPresent(env)
             /\ env["ENABLE_FIRECRAWL"] = "False"
             /\ lastThrown' \cap Mandatory = {}) =>
            (pc'[p] = "inited" /\ ~InList("FirecrawlTools", agent'.tools))
    ]_vars

C12_Witness ==
  /\ _initialized
  /\ env["FIRECRAWL_API_KEY"] = "sk-key" /\ env["ENABLE_FIRECRAWL"] = "False"
  /\ ~InList("FirecrawlTools", agent.tools)
  /\ "FirecrawlTools" \notin lastThrown

\* C13: when the scraping tool's constructor throws and no mandatory
\* constructor does, the attempt raises nothing: the agent is assigned with
\* the search tool, followed by the memory tool if MEM0_API_KEY is present
\* and its constructor returned, and without the scraping tool; the flag is
\* set next.
C13_ScrapeFailureSwallowed ==
  [][\A p \in Procs :
       /\ (Attempt(p) /\ "FirecrawlTools" \in lastThrown'
             /\ lastThrown' \cap Mandatory = {}) =>
            /\ pc'[p] = "inited" /\ result'[p] = NoResult
            /\ agent'.tools =
                 IF Present(env["MEM0_API_KEY"]) /\ "Mem0Tools" \notin lastThrown'
                 THEN <<"ExaTools", "Mem0Tools">> ELSE <<"ExaTools">>
       /\ Attempt(p) => result'[p] # Raised(ConstructorError("FirecrawlTools"))
       /\ (pc[p] = "inited" /\ pc'[p] # "inited") =>
            (_initialized' /\ agent' = agent)
    ]_vars

C13_Witness ==
  /\ _initialized
  /\ lastThrown = {"FirecrawlTools"}
  /\ agent.tools = <<"ExaTools", "Mem0Tools">>
  /\ \E p \in Procs : pc[p] = "done" /\ result[p].kind = "ok"

\* C14: a construction puts the memory tool in the list only if
\* MEM0_API_KEY is present; when its constructor throws and no mandatory
\* constructor does, the attempt raises nothing and the agent is assigned
\* with exactly the tools built before it (the search tool, and the
\* scraping tool if that was built).
C14_MemoryFailureSwallowed ==
  [][\A p \in Procs :
       /\ (Attempt(p) /\ pc'[p] = "inited"
             /\ InList("Mem0Tools", agent'.tools)) =>
            Present(env["MEM0_API_KEY"])
       /\ (Attempt(p) /\ "Mem0Tools" \in lastThrown'
             /\ lastThrown' \cap Mandatory = {}) =>
            /\ Present(env["MEM0_API_KEY"])
            /\ pc'[p] = "inited" /\ result'[p] = NoResult
            /\ agent'.tools =
                 IF ScrapeWanted /\ "FirecrawlTools" \notin lastThrown'
                 THEN <<"ExaTools", "FirecrawlTools">> ELSE <<"ExaTools">>
       /\ Attempt(p) => result'[p] # Raised(ConstructorError("Mem0Tools"))
    ]_vars

C14_Witness ==
  /\ _initialized
  /\ lastThrown = {"Mem0Tools"}
  /\ agent.tools = <<"ExaTools", "FirecrawlTools">>
  /\ \E p \in Procs : pc[p] = "done" /\ result[p].kind = "ok"

\* C20: when the search tool's constructor throws, the attempt ends with
\* exactly that exception raised to its caller, whatever the scraping and
\* memory settings are; nothing else was constructed, the agent is not
\* assigned, and the flag is false then and is not set on the way out.
C20_SearchFailureAborts ==
  [][\A p \in Procs :
       /\ (Attempt(p) /\ "ExaTools" \in lastThrown') =>
            /\ pc'[p] = "exit"
            /\ result'[p] = Raised(ConstructorError("ExaTools"))
            /\ lastThrown' = {"ExaTools"}
            /\ agent' = agent /\ constructions' = constructions
            /\ ~_initialized'
       /\ (pc[p] = "exit" /\ result[p].kind = "err") =>
            (_initialized' = _initialized /\ agent' = agent)
    ]_vars

C20_Witness ==
  /\ ~_initialized /\ agent = NoAgent
  /\ env["FIRECRAWL_API_KEY"] = "sk-key" /\ env["MEM0_API_KEY"] = "sk-key"
  /\ env["ENABLE_FIRECRAWL"] # "False"
  /\ \E p \in Procs :
       pc[p] = "done" /\ result[p] = Raised(ConstructorError("ExaTools"))

\* positions between Lock.acquire() returning and Lock.release()
Holding == {"locked", "init", "inited", "exit"}

Holders == {p \in Procs : pc[p] \in Holding}

\* C15: at most one invocation is between acquiring and releasing the lock,
\* the lock is held whenever one is, and so at most one construction attempt
\* is in progress.
C15_MutualExclusion ==
  /\ Cardinality(Holders) <= 1
  /\ Holders # {} => _locked
  /\ Cardinality({p \in Procs : pc[p] \in {"init", "inited"}}) <= 1

C15_Witness ==
  \E p, q \in Procs : pc[p] = "init" /\ pc[q] = "waiting"

\* the construction attempt of invocation p raised
InitFailed(p) ==
  /\ pc[p] \in {"exit", "done"}
  /\ result[p].kind = "err"
  /\ result[p].value \notin {AgentNotInitialized, LockNotAcquired, AgentRunError}

\* C16: a caller that obtains the lock tests the flag then, and attempts
\* construction exactly when it is unset; every failed attempt gave its own
\* caller an error and left the flag unset, so the attempts made are those in
\* progress, those that failed, and the one that succeeded; with a required
\* credential missing every caller that got past the lock has a credential
\* error of its own.
C16_WaitersRetry ==
  /\ [](/\ initCalls = Cardinality({p \in Procs : pc[p] \in {"init", "inited"}})
                       + Cardinality({p \in Procs : InitFailed(p)})
                       + (IF _initialized THEN 1 ELSE 0)
        /\ ~RequiredPresent(env) =>
             \A p \in Procs : pc[p] \in {"exit", "run", "arun", "done"} =>
               (result[p].kind = "err" /\ result[p].value \in APIKeyError))
  /\ [][\A q \in Procs :
          /\ (pc[q] = "woken" /\ pc'[q] # "woken") => pc'[q] = "locked"
          /\ (pc[q] = "locked" /\ pc'[q] # "locked") =>
               IF _initialized
               THEN pc'[q] = "exit" /\ initCalls' = initCalls
               ELSE pc'[q] = "init" /\ initCalls' = initCalls + 1
     ]_vars

C16_Witness ==
  \E p, q \in Procs :
    /\ p # q
    /\ pc[p] = "done" /\ InitFailed(p)
    /\ pc[q] = "woken" /\ _waiters = <<q>>
    /\ initCalls = 1 /\ ~_initialized

\* C17: when every started invocation keeps being scheduled and construction
\* and agent runs terminate, every handler invocation completes, and every
\* caller at the lock gets past it.
C17_EveryCallCompletes ==
  \A p \in Procs :
    /\ (pc[p] # "idle") ~> (pc[p] = "done")
    /\ (pc[p] \in {"waiting", "woken", "locked"}) ~>
         (pc[p] \in {"run", "arun", "done"})

C17_Witness ==
  /\ \A p \in Procs : pc[p] = "done"
  /\ \E p \in Procs : InitFailed(p)
  /\ \E p \in Procs : result[p].kind = "ok"
  /\ ~_locked /\ _waiters = <<>>

\* C18: once assigned, the agent reference is never assigned again; it is
\* assigned only by a construction, of which there is at most one; and every
\* call of agent.arun is made on that one agent.
C18_AgentWrittenOnce ==
  [][/\ agent # NoAgent => agent' = agent
     /\ agent' # agent =>
          (constructions' = constructions + 1 /\ FullyConstructed(agent'))
     /\ constructions' <= 1
     /\ \A p \in Procs :
          (pc[p] = "run" /\ pc'[p] = "arun") =>
            /\ agent # NoAgent /\ agent' = agent
            /\ arunCalls'[p][Len(arunCalls'[p])].agent = agent.id
            /\ agent.id = 1
    ]_vars

C18_Witness ==
  /\ constructions = 1 /\ agent.id = 1
  /\ \A p \in Procs :
       pc[p] = "done" /\ Dispatched(p) /\ arunCalls[p][1].agent = agent.id

\* C19: an invocation that is calling or about to call agent.arun does not
\* hold the lock: the lock is free, or held by another invocation.
C19_LockReleasedBeforeRun ==
  \A p \in Procs :
    pc[p] \in {"run", "arun"} =>
      (_locked => \E q \in Procs \ {p} : pc[q] \in Holding)

C19_Witness ==
  \E p, q \in Procs :
    /\ p # q
    /\ pc[p] = "arun" /\ pc[q] = "arun"
    /\ ~_locked

\* invocation p was cancelled while it waited for the lock
Abandoned(p) == result[p] = Raised(CancelledError)

AtLock == {"waiting", "woken", "cancelled", "interrupted"}

\* C21: a caller cancelled while it waits for the lock ends without the lock
\* and without having touched the flag, the agent or the lock; the lock is
\* held exactly when some invocation is between acquire and release, the
\* queue holds only callers still at the lock, construction and the flag
\* assignment happen at most once, every started invocation completes, and
\* with valid configuration and no failing constructor every caller that
\* was not cancelled has called agent.arun.
C21_AbandonedWaitHarmless ==
  /\ [](/\ Cardinality(Holders) <= 1
        /\ _locked <=> Holders # {}
        /\ \A p \in Procs : Abandoned(p) => pc[p] = "done"
        /\ \A i \in 1..Len(_waiters) : pc[_waiters[i]] \in AtLock
        /\ flagSets <= 1 /\ constructions <= 1
        /\ _initialized => (agent # NoAgent /\ constructions = 1)
        /\ ((\A p \in Procs : pc[p] = "done")
              /\ RequiredPresent(env) /\ ~ctorFailed) =>
             \A p \in Procs : Abandoned(p) \/ Dispatched(p))
  /\ [][\A p \in Procs :
          (pc[p] \in AtLock /\ pc'[p] \in {"cancelled", "interrupted", "done"}
             /\ pc'[p] # pc[p]) =>
            /\ _initialized' = _initialized /\ agent' = agent
            /\ _locked' = _locked
            /\ flagSets' = flagSets /\ constructions' = constructions
            /\ initCalls' = initCalls
     ]_vars
  /\ \A p \in Procs : (pc[p] # "idle") ~> (pc[p] = "done")

C21_Witness ==
  \E p, q \in Procs :
    /\ Abandoned(p)
    /\ pc[q] = "done" /\ result[q].kind = "ok" /\ Dispatched(q)
    /\ _initialized /\ constructions = 1 /\ flagSets = 1
    /\ ~_locked /\ _waiters = <<>>

\* C22 as stated: a handler call goes for the lock only when the flag is
\* unset, so a call that starts with the flag set neither takes the lock
\* nor queues for it.
C22_FlagCheckedFirst ==
  [][\A p \in Procs :
       (pc[p] = "idle" /\ pc'[p] # "idle" /\ _initialized) =>
         pc'[p] \notin {"locked", "waiting"}
    ]_vars

\* C22 as amended: every handler call first takes the lock or queues for it,
\* whatever the flag is; the flag is tested once, by the lock holder, and
\* construction starts only from that test with the flag unset; a holder
\* that finds the flag set skips construction; agent.arun is reached only
\* through the release of the lock.
C22_LockThenFlag ==
  [][\A p \in Procs :
       /\ (pc[p] = "idle" /\ pc'[p] # "idle") =>
            /\ pc'[p] \in {"locked", "waiting"}
            /\ pc'[p] = "locked" => (~_locked /\ _locked')
            /\ _initialized' = _initialized /\ initCalls' = initCalls
       /\ (pc'[p] = "init" /\ pc[p] # "init") =>
            (pc[p] = "locked" /\ _locked /\ ~_initialized)
       /\ (pc[p] = "locked" /\ pc'[p] # "locked" /\ _initialized) =>
            /\ pc'[p] = "exit" /\ result'[p] = NoResult
            /\ initCalls' = initCalls /\ agent' = agent
       /\ (pc'[p] = "run" /\ pc[p] # "run") =>
            (pc[p] = "exit" /\ _locked /\ ~_locked')
    ]_vars

C22_Witness ==
  \E p, q \in Procs :
    /\ p # q
    /\ pc[q] \in {"arun", "done"} /\ Dispatched(q)
    /\ pc[p] = "exit" /\ result[p] = NoResult /\ _locked
    /\ _initialized /\ initCalls = 1

\* invocation p is a direct call of initialize_agent
DirectInit(p) == entry[p] = "initialize_agent"

\* C23: a direct call of initialize_agent leaves the flag and the lock as
\* they are and, when it returns, has assigned a new agent; the flag is set
\* only by handler invocations; run_agent calls agent.arun whenever an agent
\* is present, whatever the flag; and a handler invocation that holds the
\* lock with the flag unset constructs again even when an agent is present,
\* and its construction replaces the agent.
C23_DirectInitBypassesGuard ==
  /\ [](flagSets <=
          Cardinality({p \in Procs :
             entry[p] = "handler" /\ pc[p] \in {"exit", "run", "arun", "done"}}))
  /\ [][\A p \in Procs :
          /\ (pc[p] = "idle" /\ DirectInit(p)') =>
               /\ _initialized' = _initialized /\ flagSets' = flagSets
               /\ _locked' = _locked /\ _waiters' = _waiters
               /\ pc'[p] = "done"
               /\ result'[p].kind = "ok" =>
                    /\ FullyConstructed(agent')
                    /\ agent' # agent /\ agent'.id = constructions'
          /\ (pc[p] = "run" /\ pc'[p] # "run" /\ agent # NoAgent) =>
               (pc'[p] = "arun" /\ result'[p] = NoResult)
          /\ (pc[p] = "locked" /\ pc'[p] # "locked" /\ ~_initialized) =>
               pc'[p] = "init"
          /\ (pc[p] = "init" /\ pc'[p] = "inited") =>
               (agent' # agent /\ agent'.id = constructions')
     ]_vars

C23_Witness ==
  \E p, q \in Procs :
    /\ DirectInit(p) /\ pc[p] = "done" /\ result[p] = Returned(None)
    /\ entry[q] = "handler" /\ pc[q] = "init"
    /\ ~_initialized
    /\ constructions = 1 /\ agent.id = 1 /\ initCalls = 2

====
